---- MODULE Spec2Model ----
(***************************************************************************)
(* Model of the data-fetch layer of nft_dashboard_fixed.py: the three      *)
(* fetch functions get_collection_stats, get_recent_sales and              *)
(* get_collection_assets, each wrapped by @st.cache_data(ttl=300), called  *)
(* by Streamlit sessions (one script thread per session).                  *)
(*                                                                         *)
(* One call is a small state machine per session:                          *)
(*   idle -> (cache hit) done                                              *)
(*   idle -> waitlock -> (cache hit on re-check) done                      *)
(*                    -> req -> ... -> done | raised                       *)
(* "req" is an HTTP request in flight; the session then holds the cache's  *)
(* compute lock of its key.                                                *)
(***************************************************************************)
EXTENDS Integers, Sequences, FiniteSets, TLC

(* ----------------------------- bounds ---------------------------------- *)
\* calls made in one behaviour of Spec, over all sessions
MaxCalls == 1
\* calls made in one behaviour of SpecCache, over all sessions
MaxCachedCalls == 2
\* cap on the HTTP requests of one call (the code itself never exceeds it)
MaxRequests == 5
\* the clock advances in steps of Tick seconds up to MaxTime
Tick == 150
MaxTime == 450
\* events in one sales response of SpecSales
MaxEvents == 2
\* runs of the dashboard script in one behaviour of SpecScript
MaxRuns == 1

(* ------------------------- program constants --------------------------- *)
PLACEHOLDER == "YOUR_OPENSEA_API_KEY"
max_retries == 3
ttl == 300

\* names bound at module level by the import statements (and builtins do
\* not bind "time"): a use of any other global name raises NameError
\* the module with `import time` added
ModuleGlobalsWithTime == {"st", "requests", "pd", "datetime", "math", "os", "time"}
ModuleGlobals == {"st", "requests", "pd", "datetime", "math", "os"}
NameDefined(n) == n \in ModuleGlobals

Sessions == {"s1", "s2"}
Ops == {"get_collection_stats", "get_recent_sales", "get_collection_assets"}
Slugs == {"azuki", "doodles"}
ApiKeys == {PLACEHOLDER, "", "k"}
Keys == Ops \X Slugs \X ApiKeys

\* what one requests.get attempt can end in
\*   ok_full  2xx, JSON object holding the expected non-empty member
\*   ok_empty 2xx, JSON object lacking the member (or holding an empty one)
\*   ok_bad   2xx, JSON number or null (the membership test raises TypeError)
\*   s400     any 4xx other than 401, 404, 429;  s500 any status >= 500
\*   timeout  requests.exceptions.Timeout
\*   connerr  any other RequestException (no response attached)
Outcomes == {"ok_full", "ok_empty", "ok_bad", "s401", "s404", "s429", "s400",
             "s500", "timeout", "connerr"}
Retryable == {"s429", "s500", "timeout"}

RECURSIVE Pow2(_)
Pow2(n) == IF n = 0 THEN 1 ELSE 2 * Pow2(n - 1)

(* --------------------------- fetch bodies ------------------------------ *)
Return(v, m) == [kind |-> "return", val |-> v, msg |-> m, delay |-> 0, next |-> 0]
Raise(m) == [kind |-> "raise", val |-> "None", msg |-> m, delay |-> 0, next |-> 0]
Continue(d, n) == [kind |-> "continue", val |-> "None", msg |-> "", delay |-> d, next |-> n]

\* a gate that tests for the empty string instead of the placeholder
KeyUnsetEmpty(api_key) == api_key = ""
\* the credential gate at the head of each fetch function
KeyUnset(api_key) == api_key = PLACEHOLDER

GateMsg(op) == IF op = "get_collection_stats" THEN "error_set_api_key" ELSE ""

\* get_collection_stats: what one response leads to
stats_response(o) ==
    CASE o = "s401" -> Return("None", "error_invalid_api_key")
      [] o = "s404" -> Return("None", "error_not_found")
      [] o = "s429" -> Return("None", "error_rate_limit")
      [] o = "ok_full" -> Return("stats_dict", "")
      [] o = "ok_empty" -> Return("None", "warning_no_statistics")
      [] o = "timeout" -> Return("None", "error_timed_out")
      [] o \in {"s400", "s500", "connerr"} -> Return("None", "error_api_error")
      [] o = "ok_bad" -> Return("None", "error_unexpected")

\* get_recent_sales: what one response leads to
sales_response(o) ==
    CASE o = "s401" -> Return("None", "")
      [] o = "s404" -> Return("None", "")
      [] o = "s429" -> Return("None", "warning_rate_limit")
      [] o = "ok_full" -> Return("DataFrame", "")
      [] o = "ok_empty" -> Return("empty_DataFrame", "")
      [] o = "timeout" -> Return("None", "warning_timed_out")
      [] o \in {"s400", "s500", "connerr"} -> Return("None", "warning_failed_to_fetch")
      [] o = "ok_bad" -> Return("None", "warning_error_processing")

\* time.sleep(2 ** attempt) followed by continue. in_try: the call stands in
\* the try body (an exception it raises reaches the except clauses) and not
\* in an except clause (an exception it raises leaves the function).
sleep_and_continue(attempt, in_try) ==
    IF NameDefined("time") THEN Continue(Pow2(attempt), attempt + 1)
    ELSE IF in_try THEN Return("None", "error_processing_assets")
    ELSE Raise("NameError")

\* the 404 branch falling into a retry: continue without return
assets_on_404_retried(attempt) == Continue(0, attempt + 1)
\* line 227-229: warning, return []
assets_on_404(attempt) == Return("empty_list", "warning_not_found")
\* line 224-226: error, return None
assets_on_401(attempt) == Return("None", "error_invalid_api_key")
\* the 429 branch sleeping and retrying without advancing the attempt counter
assets_on_429_uncounted(attempt) == Continue(Pow2(attempt), attempt)
\* line 230-233: warning, time.sleep(2 ** attempt), continue
assets_on_429(attempt) == sleep_and_continue(attempt, TRUE)

\* the empty-list branch returning None like an error
assets_no_nfts_none == Return("None", "")
\* line 239-242: 'nfts' missing or empty: return []
assets_no_nfts == Return("empty_list", "")

\* get_collection_assets: what the response of attempt `attempt` leads to
assets_response(o, attempt) ==
    CASE o = "s401" -> assets_on_401(attempt)
      [] o = "s404" -> assets_on_404(attempt)
      [] o = "s429" -> assets_on_429(attempt)
      [] o = "ok_full" -> Return("nfts", "")
      [] o = "ok_empty" -> assets_no_nfts
      [] o = "timeout" -> sleep_and_continue(attempt, FALSE)
      [] o = "s500" -> sleep_and_continue(attempt, FALSE)
      [] o \in {"s400", "connerr"} -> Return("None", "error_failed_to_fetch")
      [] o = "ok_bad" -> Return("None", "error_processing_assets")

Handle(op, o, attempt) ==
    CASE op = "get_collection_stats" -> stats_response(o)
      [] op = "get_recent_sales" -> sales_response(o)
      [] op = "get_collection_assets" -> assets_response(o, attempt)

\* the statement after the retry loop of get_collection_assets
Exhausted == Return("None", "error_failed_after_retries")

\* for attempt in range(max_retries): is there an iteration `next`
LoopHas(next) == next < max_retries

(* ------------------------------ cache ---------------------------------- *)
Absent == [val |-> "absent", msg |-> "", at |-> -1]

\* an entry that never expires
FreshAlways(e, t) == e # Absent
\* an entry written at e.at is served while less than ttl seconds old
Fresh(e, t) == e # Absent /\ t < e.at + ttl

\* a wrapper that does not store a None result
StoresOnlyPresent(v) == v # "None"
\* every value a body returns is stored, None included
Stores(v) == TRUE

(* ------------------------------ state ---------------------------------- *)
VARIABLES
    pc,         \* session -> "idle" | "waitlock" | "req" | "done" | "raised"
    arg,        \* session -> [op, slug, api_key] of its current call
    attempt,    \* session -> loop index of the request in flight
    nreq,       \* session -> HTTP requests its current call has issued
    delays,     \* session -> backoff delays its current call has slept
    outs,       \* session -> outcomes of the attempts of its current call
    result,     \* session -> [val, msg] its last call returned
    served,     \* session -> write time of the cache entry it was served, or -1
    via,        \* session -> how its call was answered: "hit" at the first
                \* look-up, "hit_after_wait" at the look-up under the lock,
                \* "body" by running the fetch body, "" so far not at all
    checkedAt,  \* session -> time of its last cache look-up
    cache,      \* key -> entry [val, msg, at] or Absent
    lastRet,    \* key -> time a fetch body last returned for it, or -1
    now,        \* the clock, in seconds
    calls,      \* calls made so far
    \* the event loop of get_recent_sales (lines 134-177)
    sales_pc,        \* "off" | "loop" | "returned"
    asset_events,    \* data['asset_events'] of the response
    idx,             \* position of the event the loop is at
    processed_data,  \* the records appended so far
    \* one session's run of the dashboard script (lines 263-435)
    script_pc,       \* "idle" | "stats" | "sales" | "assets" | "end" | "aborted"
    api_key_input,   \* the sidebar's text input
    collection_slug, \* the main text input
    OPENSEA_API_KEY, \* the module global
    invoked,         \* the fetch functions called in this run, in call order
    fetched,         \* what they returned: stats, recent_sales_df, assets
    runs             \* script runs started so far

fetch_vars == <<pc, arg, attempt, nreq, delays, outs, result, served, via, checkedAt,
                cache, lastRet, now, calls>>
sales_vars == <<sales_pc, asset_events, idx, processed_data>>
script_vars == <<script_pc, api_key_input, collection_slug, OPENSEA_API_KEY,
                 invoked, fetched, runs>>
vars == <<fetch_vars, sales_vars, script_vars>>

NoArg == [op |-> "", slug |-> "", api_key |-> ""]
Pending == [val |-> "pending", msg |-> ""]
KeyOf(s) == <<arg[s].op, arg[s].slug, arg[s].api_key>>

InitFetch ==
    /\ pc = [s \in Sessions |-> "idle"]
    /\ arg = [s \in Sessions |-> NoArg]
    /\ attempt = [s \in Sessions |-> 0]
    /\ nreq = [s \in Sessions |-> 0]
    /\ delays = [s \in Sessions |-> <<>>]
    /\ outs = [s \in Sessions |-> <<>>]
    /\ result = [s \in Sessions |-> Pending]
    /\ served = [s \in Sessions |-> -1]
    /\ via = [s \in Sessions |-> ""]
    /\ checkedAt = [s \in Sessions |-> 0]
    /\ cache = [k \in Keys |-> Absent]
    /\ lastRet = [k \in Keys |-> -1]
    /\ now = 0
    /\ calls = 0

\* no sales response is being processed
SalesOff ==
    /\ sales_pc = "off"
    /\ asset_events = <<>>
    /\ idx = 0
    /\ processed_data = <<>>

\* no script run has started: the widgets hold their default values
ScriptOff ==
    /\ script_pc = "idle"
    /\ api_key_input = PLACEHOLDER
    /\ collection_slug = "boredapeyachtclub"
    /\ OPENSEA_API_KEY = PLACEHOLDER
    /\ invoked = <<>>
    /\ fetched = <<>>
    /\ runs = 0

Init == InitFetch /\ SalesOff /\ ScriptOff

\* a cache without a compute lock
LockFreeAlways(s, k) == TRUE
\* the compute lock of key k is free for session s
LockFree(s, k) == \A t \in Sessions \ {s} : ~(pc[t] = "req" /\ KeyOf(t) = k)

\* session s is served entry e from the cache
Hit(s, e, how) ==
    /\ via' = [via EXCEPT ![s] = how]
    /\ pc' = [pc EXCEPT ![s] = "done"]
    /\ result' = [result EXCEPT ![s] = [val |-> e.val, msg |-> e.msg]]
    /\ served' = [served EXCEPT ![s] = e.at]

\* the fetch body of session s returns h.val: the wrapper stores it
BodyReturns(s, k, h) ==
    /\ pc' = [pc EXCEPT ![s] = "done"]
    /\ result' = [result EXCEPT ![s] = [val |-> h.val, msg |-> h.msg]]
    /\ cache' = IF Stores(h.val)
                THEN [cache EXCEPT ![k] = [val |-> h.val, msg |-> h.msg, at |-> now]]
                ELSE cache
    /\ lastRet' = [lastRet EXCEPT ![k] = now]

\* a session calls a cached fetch function: first look-up, without the lock
Call(s, op, slug, api_key, max) ==
    /\ pc[s] \in {"idle", "done", "raised"}
    /\ calls < max
    /\ calls' = calls + 1
    /\ arg' = [arg EXCEPT ![s] = [op |-> op, slug |-> slug, api_key |-> api_key]]
    /\ attempt' = [attempt EXCEPT ![s] = 0]
    /\ nreq' = [nreq EXCEPT ![s] = 0]
    /\ delays' = [delays EXCEPT ![s] = <<>>]
    /\ outs' = [outs EXCEPT ![s] = <<>>]
    /\ checkedAt' = [checkedAt EXCEPT ![s] = now]
    /\ LET e == cache[<<op, slug, api_key>>]
       IN IF Fresh(e, now)
          THEN Hit(s, e, "hit")
          ELSE /\ pc' = [pc EXCEPT ![s] = "waitlock"]
               /\ result' = [result EXCEPT ![s] = Pending]
               /\ served' = [served EXCEPT ![s] = -1]
               /\ via' = [via EXCEPT ![s] = ""]
    /\ UNCHANGED <<cache, lastRet, now>>

\* the session takes the compute lock of its key, looks the key up again and,
\* on a miss, runs the fetch body up to its first request
Acquire(s) ==
    /\ pc[s] = "waitlock"
    /\ LockFree(s, KeyOf(s))
    /\ checkedAt' = [checkedAt EXCEPT ![s] = now]
    /\ LET k == KeyOf(s)
           e == cache[k]
       IN IF Fresh(e, now)
          THEN /\ Hit(s, e, "hit_after_wait")
               /\ UNCHANGED <<nreq, cache, lastRet>>
          ELSE /\ via' = [via EXCEPT ![s] = "body"]
               /\ IF KeyUnset(arg[s].api_key)
                  THEN /\ BodyReturns(s, k, Return("None", GateMsg(arg[s].op)))
                       /\ UNCHANGED <<nreq, served>>
                  ELSE /\ pc' = [pc EXCEPT ![s] = "req"]
                       /\ nreq' = [nreq EXCEPT ![s] = 1]
                       /\ UNCHANGED <<result, served, cache, lastRet>>
    /\ UNCHANGED <<arg, attempt, delays, outs, now, calls>>

\* the request in flight of session s ends in outcome o and the body runs on
\* to its next request, its return or its exception
Respond(s, o) ==
    /\ pc[s] = "req"
    /\ outs' = [outs EXCEPT ![s] = Append(@, o)]
    /\ LET k == KeyOf(s)
           h == Handle(arg[s].op, o, attempt[s])
       IN CASE h.kind = "return" ->
                 /\ BodyReturns(s, k, h)
                 /\ UNCHANGED <<attempt, nreq, delays>>
            [] h.kind = "raise" ->
                 /\ pc' = [pc EXCEPT ![s] = "raised"]
                 /\ result' = [result EXCEPT ![s] = [val |-> "exception", msg |-> h.msg]]
                 /\ UNCHANGED <<attempt, nreq, delays, cache, lastRet>>
            [] h.kind = "continue" ->
                 /\ delays' = [delays EXCEPT ![s] = IF h.delay > 0 THEN Append(@, h.delay) ELSE @]
                 /\ IF LoopHas(h.next)
                    THEN /\ nreq[s] < MaxRequests
                         /\ attempt' = [attempt EXCEPT ![s] = h.next]
                         /\ nreq' = [nreq EXCEPT ![s] = @ + 1]
                         /\ UNCHANGED <<pc, result, cache, lastRet>>
                    ELSE /\ BodyReturns(s, k, Exhausted)
                         /\ UNCHANGED <<attempt, nreq>>
    /\ UNCHANGED <<arg, served, via, checkedAt, now, calls>>

\* time passes
Advance ==
    /\ now + Tick <= MaxTime
    /\ now' = now + Tick
    /\ UNCHANGED <<pc, arg, attempt, nreq, delays, outs, result, served, via,
                   checkedAt, cache, lastRet, calls>>

\* the fetch functions under every argument and every outcome of a request
Next ==
    \/ \E s \in Sessions, op \in Ops, slug \in Slugs, k \in ApiKeys :
          Call(s, op, slug, k, MaxCalls) /\ UNCHANGED <<sales_vars, script_vars>>
    \/ \E s \in Sessions : Acquire(s) /\ UNCHANGED <<sales_vars, script_vars>>
    \/ \E s \in Sessions, o \in Outcomes : Respond(s, o) /\ UNCHANGED <<sales_vars, script_vars>>

Spec == Init /\ [][Next]_vars

\* the cached functions over time: repeated and concurrent calls with a usable
\* credential, the outcomes being one that returns a value, one that returns
\* None and one that get_collection_assets leaves by an exception
CacheOutcomes == {"ok_full", "s404", "timeout"}

NextCache ==
    \/ \E s \in Sessions, op \in Ops, slug \in Slugs :
          Call(s, op, slug, "k", MaxCachedCalls) /\ UNCHANGED <<sales_vars, script_vars>>
    \/ \E s \in Sessions : Acquire(s) /\ UNCHANGED <<sales_vars, script_vars>>
    \/ \E s \in Sessions, o \in CacheOutcomes : Respond(s, o) /\ UNCHANGED <<sales_vars, script_vars>>
    \/ Advance /\ UNCHANGED <<sales_vars, script_vars>>

SpecCache == Init /\ [][NextCache]_vars

(* --------------- get_recent_sales: the event loop ---------------------- *)
\* one element of data['asset_events']: total_price is a decimal string of
\* wei ("wei") or a string float() rejects ("bad"); the nested asset and
\* payment_token objects are present ("dict") or the key is missing
Events == [total_price : {"wei", "bad"},
           asset : {"dict", "missing"},
           payment_token : {"dict", "missing"}]

\* pd.DataFrame(list of dicts): a key some event has is a column of every
\* row, holding NaN in the rows of the events that lack it
HasColumn(evs, col) == \E i \in 1..Len(evs) : evs[i][col] = "dict"
IsNaN(evs, i, col) == evs[i][col] = "missing" /\ HasColumn(evs, col)

\* does the body of the per-event try (lines 142-171) raise for event i
EventRaises(evs, i) ==
    \/ evs[i].total_price = "bad"        \* float("...") raises ValueError
    \/ IsNaN(evs, i, "asset")            \* NaN is truthy; NaN.get: AttributeError
    \/ IsNaN(evs, i, "payment_token")    \* NaN.get: AttributeError

\* the record appended for event i (lines 166-171); src is the position the
\* event had in the response
SaleRecord(evs, i) ==
    [src |-> i,
     nft_name |-> IF evs[i].asset = "dict" THEN "name" ELSE "Unknown",
     token_id |-> IF evs[i].asset = "dict" THEN "identifier" ELSE "Unknown",
     price |-> IF evs[i].payment_token = "dict" THEN "1.0000 SYM" ELSE "1.0000 ETH"]

\* an except clause that ends the loop at the first failing event
break_on_error(evs, i) == Len(evs) + 1
\* lines 172-173: except Exception: continue -- the loop goes on to the next event
continue_on_error(evs, i) == i + 1

RECURSIVE SeqsUpTo(_, _)
SeqsUpTo(S, n) ==
    IF n = 0 THEN {<<>>}
    ELSE SeqsUpTo(S, n - 1) \cup
         {Append(q, x) : q \in {r \in SeqsUpTo(S, n - 1) : Len(r) = n - 1}, x \in S}

\* a 2xx sales response with a non-empty event list has arrived (line 134)
InitSales ==
    /\ InitFetch
    /\ ScriptOff
    /\ sales_pc = "loop"
    /\ asset_events \in SeqsUpTo(Events, MaxEvents) \ {<<>>}
    /\ idx = 1
    /\ processed_data = <<>>

\* one iteration of `for _, event in df.iterrows()` (lines 140-173)
ProcessEvent ==
    /\ sales_pc = "loop"
    /\ idx <= Len(asset_events)
    /\ IF EventRaises(asset_events, idx)
       THEN /\ idx' = continue_on_error(asset_events, idx)
            /\ UNCHANGED processed_data
       ELSE /\ idx' = idx + 1
            /\ processed_data' = Append(processed_data, SaleRecord(asset_events, idx))
    /\ UNCHANGED <<sales_pc, asset_events, fetch_vars, script_vars>>

\* line 175: return pd.DataFrame(processed_data)
ReturnFrame ==
    /\ sales_pc = "loop"
    /\ idx > Len(asset_events)
    /\ sales_pc' = "returned"
    /\ UNCHANGED <<asset_events, idx, processed_data, fetch_vars, script_vars>>

NextSales == ProcessEvent \/ ReturnFrame

SpecSales == InitSales /\ [][NextSales]_vars

(* ------------------------ the dashboard script ------------------------- *)
\* the session whose script runs are followed
Runner == "s1"
\* what the user can leave in the slug input: a slug or nothing
SlugInputs == Slugs \cup {""}
\* what the fetches of a script run are answered with: a value, None, and the
\* outcome get_collection_assets leaves by an exception
ScriptOutcomes == {"ok_full", "s404", "timeout"}
FetchOrder == <<"get_collection_stats", "get_recent_sales", "get_collection_assets">>

\* lines 18 and 275-276: the global starts as the placeholder in every run and
\* takes the sidebar input when that differs from the placeholder
sidebar_key(input) == IF input # PLACEHOLDER THEN input ELSE PLACEHOLDER

\* line 305: if collection_slug and OPENSEA_API_KEY != "YOUR_OPENSEA_API_KEY"
FetchGate(slug, key) == slug # "" /\ key # PLACEHOLDER

\* a script that goes on to the next fetch only after a present result
proceeds_if_present(val) == val # "None"
\* lines 307-309: the three calls follow one another unconditionally
proceeds(val) == TRUE

\* the script calls fetch function number n of FetchOrder
Invoke(n, slug, key) ==
    /\ Call(Runner, FetchOrder[n], slug, key, calls + 1)
    /\ invoked' = Append(IF n = 1 THEN <<>> ELSE invoked, FetchOrder[n])

\* a run of the script from its top to its first fetch call, or to its end
\* when line 305 lets no fetch through (lines 264-309, 432-435)
RunScript(input, slug) ==
    /\ script_pc \in {"idle", "end", "aborted"}
    /\ runs < MaxRuns
    /\ runs' = runs + 1
    /\ api_key_input' = input
    /\ collection_slug' = slug
    /\ OPENSEA_API_KEY' = sidebar_key(input)
    /\ fetched' = <<>>
    /\ IF FetchGate(slug, sidebar_key(input))
       THEN /\ script_pc' = "stats"
            /\ Invoke(1, slug, sidebar_key(input))
       ELSE /\ script_pc' = "end"
            /\ invoked' = <<>>
            /\ UNCHANGED fetch_vars
    /\ UNCHANGED sales_vars

\* get_collection_stats has returned: line 308 calls get_recent_sales
AfterStats ==
    /\ script_pc = "stats"
    /\ pc[Runner] = "done"
    /\ fetched' = Append(fetched, result[Runner].val)
    /\ IF proceeds(result[Runner].val)
       THEN script_pc' = "sales" /\ Invoke(2, collection_slug, OPENSEA_API_KEY)
       ELSE script_pc' = "end" /\ UNCHANGED <<invoked, fetch_vars>>
    /\ UNCHANGED <<api_key_input, collection_slug, OPENSEA_API_KEY, runs, sales_vars>>

\* get_recent_sales has returned: line 309 calls get_collection_assets
AfterSales ==
    /\ script_pc = "sales"
    /\ pc[Runner] = "done"
    /\ fetched' = Append(fetched, result[Runner].val)
    /\ IF proceeds(result[Runner].val)
       THEN script_pc' = "assets" /\ Invoke(3, collection_slug, OPENSEA_API_KEY)
       ELSE script_pc' = "end" /\ UNCHANGED <<invoked, fetch_vars>>
    /\ UNCHANGED <<api_key_input, collection_slug, OPENSEA_API_KEY, runs, sales_vars>>

\* get_collection_assets has returned: the tabs are rendered (lines 311-430)
AfterAssets ==
    /\ script_pc = "assets"
    /\ pc[Runner] = "done"
    /\ fetched' = Append(fetched, result[Runner].val)
    /\ script_pc' = "end"
    /\ UNCHANGED <<api_key_input, collection_slug, OPENSEA_API_KEY, invoked, runs,
                   fetch_vars, sales_vars>>

\* a fetch call ended by an exception: the script run ends there
Aborted ==
    /\ script_pc \in {"stats", "sales", "assets"}
    /\ pc[Runner] = "raised"
    /\ script_pc' = "aborted"
    /\ UNCHANGED <<api_key_input, collection_slug, OPENSEA_API_KEY, invoked, fetched,
                   runs, fetch_vars, sales_vars>>

NextScript ==
    \/ \E input \in ApiKeys, slug \in SlugInputs : RunScript(input, slug)
    \/ AfterStats
    \/ AfterSales
    \/ AfterAssets
    \/ Aborted
    \/ Acquire(Runner) /\ UNCHANGED <<sales_vars, script_vars>>
    \/ \E o \in ScriptOutcomes : Respond(Runner, o) /\ UNCHANGED <<sales_vars, script_vars>>

SpecScript == Init /\ [][NextScript]_vars

(* ===================== properties of one fetch call ==================== *)
Finished(s) == pc[s] \in {"done", "raised"}
AllIn(seq, S) == \A i \in 1..Len(seq) : seq[i] \in S

\* C1: a call of any of the three fetch functions whose credential is the
\* placeholder "YOUR_OPENSEA_API_KEY" never issues an HTTP request and ends
\* by returning None, whatever the slug.
C1_PlaceholderNoRequest ==
    \A s \in Sessions :
        arg[s].api_key = PLACEHOLDER =>
            /\ nreq[s] = 0
            /\ pc[s] \in {"waitlock", "done"}
            /\ pc[s] = "done" => result[s].val = "None"

C1_Witness ==
    \E s \in Sessions :
        /\ pc[s] = "done"
        /\ arg[s] = [op |-> "get_collection_assets", slug |-> "doodles",
                     api_key |-> PLACEHOLDER]
        /\ result[s].val = "None"

\* C2: every call of a fetch function ends by returning a value: no call
\* ends with an exception leaving the function, whatever its attempts end in.
C2_NoExceptionEscapes ==
    \A s \in Sessions : pc[s] # "raised"

C4_RetryableIsRetried ==
    \A s \in Sessions :
        (Finished(s) /\ outs[s] # <<>> /\ outs[s][Len(outs[s])] \in Retryable)
            => Len(outs[s]) = max_retries

\* C5: a call whose first response is a 401 or a 404 ends at once: exactly one
\* request, no retry, no backoff delay.
C5_NoRetryOn401or404 ==
    \A s \in Sessions :
        (outs[s] # <<>> /\ outs[s][1] \in {"s401", "s404"}) =>
            /\ pc[s] = "done"
            /\ nreq[s] = 1
            /\ Len(outs[s]) = 1
            /\ delays[s] = <<>>

C5_Witness ==
    \E s \in Sessions :
        /\ pc[s] = "done"
        /\ arg[s].op = "get_collection_assets"
        /\ outs[s] = <<"s404">>

\* C6: a call of get_collection_assets that meets only retryable outcomes ends
\* after its third attempt, by returning the exhausted-retries error ("Failed
\* to fetch assets after 3 attempts"), not the error of a single attempt.
C6_ExhaustedAfterThree ==
    \A s \in Sessions :
        (/\ Finished(s)
         /\ arg[s].op = "get_collection_assets"
         /\ outs[s] # <<>>
         /\ AllIn(outs[s], Retryable))
            => /\ pc[s] = "done"
               /\ Len(outs[s]) = max_retries
               /\ result[s].msg = Exhausted.msg

\* the responses a caller is to take for a success: a 2xx with the member, and
\* for the two sequence-valued functions a 2xx with an empty or missing one
SuccessOutcomes(op) ==
    IF op = "get_collection_stats" THEN {"ok_full"} ELSE {"ok_full", "ok_empty"}
SuccessValues(op) == {Handle(op, o, 0).val : o \in SuccessOutcomes(op)}

\* C7: a call ended by a 401 or a 404 returns a value that none of the
\* function's successful responses returns.
C7_ErrorDistinctFromSuccess ==
    \A s \in Sessions :
        (pc[s] = "done" /\ outs[s] # <<>> /\ outs[s][1] \in {"s401", "s404"})
            => result[s].val \notin SuccessValues(arg[s].op)

(* ======================= properties of the cache ======================= *)
\* C8: within ttl = 300 seconds of a fetch body returning for a key, whatever
\* it returned (None included), no call with that key runs the body: a request
\* is in flight only for a call whose look-up found no return less than ttl
\* old, and a call served from the cache has issued no request.
C8_OneFetchPerTtlWindow ==
    \A s \in Sessions :
        /\ pc[s] = "req" =>
              \/ lastRet[KeyOf(s)] = -1
              \/ lastRet[KeyOf(s)] + ttl <= checkedAt[s]
        /\ (pc[s] = "done" /\ via[s] # "body") => (nreq[s] = 0 /\ served[s] # -1)

C8_Witness ==
    \E s \in Sessions :
        /\ pc[s] = "done"
        /\ via[s] = "hit"
        /\ served[s] < checkedAt[s]
        /\ result[s].val = "None"
        /\ nreq[s] = 0

C10_ExpiredNeverServed ==
    /\ \A s \in Sessions :
          (pc[s] = "done" /\ via[s] # "body") => checkedAt[s] < served[s] + ttl
    /\ \A k \in Keys : cache[k].at = lastRet[k]

C10_Witness ==
    \E s \in Sessions, t \in Sessions :
        /\ s # t
        /\ KeyOf(s) = KeyOf(t)
        /\ pc[t] = "done" /\ via[t] = "body" /\ result[t].val = "None"
        /\ pc[s] = "done" /\ via[s] = "body" /\ result[s].val = "stats_dict"
        /\ checkedAt[t] + ttl <= checkedAt[s]
        /\ cache[KeyOf(s)] = [val |-> "stats_dict", msg |-> "", at |-> now]

(* ================= properties of the single outcomes =================== *)
\* what get_collection_stats is left with when the fetch itself fails
FetchErrors == {"s401", "s404", "s429", "timeout", "connerr"}

\* C11: for a 2xx stats response without the totals object
\* get_collection_stats returns a value that is none of the values it returns
\* on a fetch error (401, 404, 429, timeout, transport error).
C11_NoDataDistinctFromError ==
    \A s \in Sessions :
        (/\ pc[s] = "done"
         /\ arg[s].op = "get_collection_stats"
         /\ outs[s] = <<"ok_empty">>)
            => result[s].val \notin {stats_response(o).val : o \in FetchErrors}

\* C13: for a 2xx asset response whose 'nfts' list is empty or missing
\* get_collection_assets returns the empty list after exactly one request:
\* not None, and with no warning or error shown.
C13_EmptyAssetsIsEmptyList ==
    \A s \in Sessions :
        (/\ arg[s].op = "get_collection_assets"
         /\ outs[s] # <<>>
         /\ outs[s][1] = "ok_empty")
            => /\ pc[s] = "done"
               /\ nreq[s] = 1
               /\ result[s] = [val |-> "empty_list", msg |-> ""]
               /\ result[s].val # "None"

C13_Witness ==
    \E s \in Sessions :
        /\ pc[s] = "done"
        /\ arg[s].op = "get_collection_assets"
        /\ outs[s] = <<"ok_empty">>
        /\ result[s].val = "empty_list"

RECURSIVE SeqSum(_)
SeqSum(seq) == IF seq = <<>> THEN 0 ELSE seq[1] + SeqSum(Tail(seq))

Srcs(recs) == {recs[j].src : j \in 1..Len(recs)}

\* C14: for a non-empty event list get_recent_sales returns a frame (never
\* None) that holds exactly one record for each event whose processing does
\* not raise and none for the others, in the order of the response.
C14_FailingEventsSkipped ==
    sales_pc = "returned" =>
        /\ Srcs(processed_data) =
              {i \in 1..Len(asset_events) : ~EventRaises(asset_events, i)}
        /\ Len(processed_data) = Cardinality(Srcs(processed_data))
        /\ \A j \in 1..Len(processed_data) :
              processed_data[j] = SaleRecord(asset_events, processed_data[j].src)
        /\ \A j, k \in 1..Len(processed_data) :
              j < k => processed_data[j].src < processed_data[k].src

\* the first event of the response fails and the second is kept
C14_Witness ==
    /\ sales_pc = "returned"
    /\ Len(asset_events) >= 2
    /\ EventRaises(asset_events, 1)
    /\ ~EventRaises(asset_events, 2)
    /\ Len(processed_data) >= 1
    /\ processed_data[1].src = 2

(* ===================== properties of a script run ====================== *)
IsPrefix(p, q) == Len(p) <= Len(q) /\ \A i \in 1..Len(p) : p[i] = q[i]
RunOver == script_pc \in {"end", "aborted"}

\* C12: with the empty string as the credential supplied in the sidebar no
\* fetch function issues an HTTP request, and each fetch that has returned
\* has returned None without an error shown.
C12_EmptyCredentialNoRequest ==
    (runs > 0 /\ api_key_input = "") =>
        /\ nreq[Runner] = 0
        /\ pc[Runner] # "req"
        /\ \A i \in 1..Len(fetched) : fetched[i] = "None"

\* C16: in a script run no fetch function is called unless the slug is
\* non-empty and the credential is not the placeholder; when both hold the
\* functions are called once each in the order stats, sales, assets, and the
\* run does not end before all three were called, whatever the earlier ones
\* returned.
C16_FetchOrder ==
    runs > 0 =>
        /\ IsPrefix(invoked, FetchOrder)
        /\ ~(collection_slug # "" /\ OPENSEA_API_KEY # PLACEHOLDER) => invoked = <<>>
        /\ (collection_slug # "" /\ OPENSEA_API_KEY # PLACEHOLDER) =>
              /\ Len(invoked) >= 1
              /\ RunOver => invoked = FetchOrder

\* a run in which stats and sales both returned None and assets was still called
C16_Witness ==
    /\ script_pc = "end"
    /\ invoked = FetchOrder
    /\ Len(fetched) = 3
    /\ fetched[1] = "None"
    /\ fetched[2] = "None"

====
